---- MODULE Spec2Model ----
(***************************************************************************)
(* Verification model of the slash link shortener.                         *)
(*                                                                         *)
(* Redirector (src/api/v1/redirector.go): the GET handler that resolves a   *)
(* path segment to a shortcut, checks visibility, records a view activity,  *)
(* enqueues a metric and renders a redirect, a plain-text body or an HTML   *)
(* page.                                                                    *)
(*                                                                         *)
(* Strings are sequences of one-character strings, so that concatenation,   *)
(* escaping and URL parsing are computed character by character.            *)
(***************************************************************************)
EXTENDS Integers, Sequences, FiniteSets, TLC

VARIABLES
    shortcuts,    \* the shortcut table of the store (read-only for the handler)
    activities,   \* the activity table of the store, in insertion order
    metricQueue,  \* events handed to metric.Enqueue, in order
    req,          \* per request: handler position, inputs, locals and response
    renderIn,     \* redirectToShortcut called on its own: the shortcut argument
    renderOut,    \* redirectToShortcut called on its own: the response written
    userTable,    \* the rows of the database table "user"
    nextUserID,   \* the id the database gives to the next inserted user
    userCache,    \* Store.userCache: entries [key, value]
    userCallers,  \* per goroutine calling the user store: the calls it makes
    call,         \* per goroutine: the store call it is in, its locals and result
    dbStart,      \* what DB.Open finds: profile, database file, migration history
    migrationHistory, \* the versions in the table migration_history
    dbLog,        \* the statements sent to the database by DB.Open, in order
    open,         \* DB.Open: its position, locals and result
    run,          \* rootCmd.Run: the position of the main goroutine
    sigHandler,   \* the goroutine started by Run: its position and its signal
    sigChan,      \* the channel c given to signal.Notify
    sigSent,      \* number of SIGINT and SIGTERM sent to the process
    ctxDone,      \* the root context is cancelled
    server        \* the server: its state and whether it served

handlerVars == <<shortcuts, activities, metricQueue, req>>
renderVars == <<renderIn, renderOut>>
userVars == <<userTable, nextUserID, userCache, userCallers, call>>
dbVars == <<dbStart, migrationHistory, dbLog, open>>
runVars == <<run, sigHandler, sigChan, sigSent, ctxDone, server>>
vars ==
    <<shortcuts, activities, metricQueue, req, renderIn, renderOut,
      userTable, nextUserID, userCache, userCallers, call,
      dbStart, migrationHistory, dbLog, open,
      run, sigHandler, sigChan, sigSent, ctxDone, server>>

\* what the redirector leaves alone, what the user store leaves alone,
\* what DB.Open leaves alone, and what the command leaves alone
outsideRedirector == <<userVars, dbVars, runVars>>
outsideUsers == <<handlerVars, renderVars, dbVars, runVars>>
outsideDB == <<handlerVars, renderVars, userVars, runVars>>
outsideRun == <<handlerVars, renderVars, userVars, dbVars>>

\* the command not run
RunIdle ==
    /\ run = <<>>
    /\ sigHandler = <<>>
    /\ sigChan = <<>>
    /\ sigSent = 0
    /\ ctxDone = FALSE
    /\ server = <<>>

\* DB.Open not called
DBIdle ==
    /\ dbStart = <<>>
    /\ migrationHistory = {}
    /\ dbLog = <<>>
    /\ open = <<>>

\* the user store before it is used
UsersIdle ==
    /\ userTable = {}
    /\ nextUserID = 1
    /\ userCache = {}
    /\ userCallers = <<>>
    /\ call = <<>>

----------------------------------------------------------------------------
(* Bounds of the model *)

\* number of requests handled concurrently
MaxRequests == 2
\* longest link drawn character by character for the rendering checks
MaxLinkLen == 3
\* number of users the database accepts before the model stops inserting
MaxUsers == 2
\* number of goroutines calling the user store concurrently
MaxCallers == 2
\* number of calls each goroutine makes to the user store
MaxCalls == 3
\* number of versions in the migration history DB.Open starts from
MaxHistory == 2
\* number of times DB.Open is attempted on the same database
MaxAttempts == 2
\* number of signals sent to the process while the command runs
MaxSignals == 2

----------------------------------------------------------------------------
(* String literals of the source *)

\* `invalid shortcut name`
StrInvalidName ==
    <<"i", "n", "v", "a", "l", "i", "d", " ", "s", "h", "o", "r", "t", "c", "u", "t", " ", "n", "a", "m", "e">>
\* `failed to get shortcut, err: `
StrGetFailed ==
    <<"f", "a", "i", "l", "e", "d", " ", "t", "o", " ", "g", "e", "t", " ", "s", "h", "o", "r", "t", "c", "u", "t", ",", " ", "e", "r", "r", ":", " ">>
\* `/404?shortcut=`
StrNotFoundPrefix ==
    <<"/", "4", "0", "4", "?", "s", "h", "o", "r", "t", "c", "u", "t", "=">>
\* `Unauthorized`
StrUnauthorized ==
    <<"U", "n", "a", "u", "t", "h", "o", "r", "i", "z", "e", "d">>
\* `failed to create activity, err: `
StrActivityFailed ==
    <<"f", "a", "i", "l", "e", "d", " ", "t", "o", " ", "c", "r", "e", "a", "t", "e", " ", "a", "c", "t", "i", "v", "i", "t", "y", ",", " ", "e", "r", "r", ":", " ">>
\* `shortcut redirect`
StrShortcutRedirect ==
    <<"s", "h", "o", "r", "t", "c", "u", "t", " ", "r", "e", "d", "i", "r", "e", "c", "t">>
\* `<html><head>`
StrHtmlOpen ==
    <<"<", "h", "t", "m", "l", ">", "<", "h", "e", "a", "d", ">">>
\* `</head><body>`
StrHeadClose ==
    <<"<", "/", "h", "e", "a", "d", ">", "<", "b", "o", "d", "y", ">">>
\* `</body></html>`
StrHtmlClose ==
    <<"<", "/", "b", "o", "d", "y", ">", "<", "/", "h", "t", "m", "l", ">">>
\* `<title>`
StrTitleOpen ==
    <<"<", "t", "i", "t", "l", "e", ">">>
\* `</title>`
StrTitleClose ==
    <<"<", "/", "t", "i", "t", "l", "e", ">">>
\* `<meta name="description" content="`
StrMetaDescription ==
    <<"<", "m", "e", "t", "a", " ", "n", "a", "m", "e", "=", "\"", "d", "e", "s", "c", "r", "i", "p", "t", "i", "o", "n", "\"", " ", "c", "o", "n", "t", "e", "n", "t", "=", "\"">>
\* `<meta property="og:title" content="`
StrMetaOgTitle ==
    <<"<", "m", "e", "t", "a", " ", "p", "r", "o", "p", "e", "r", "t", "y", "=", "\"", "o", "g", ":", "t", "i", "t", "l", "e", "\"", " ", "c", "o", "n", "t", "e", "n", "t", "=", "\"">>
\* `<meta property="og:description" content="`
StrMetaOgDescription ==
    <<"<", "m", "e", "t", "a", " ", "p", "r", "o", "p", "e", "r", "t", "y", "=", "\"", "o", "g", ":", "d", "e", "s", "c", "r", "i", "p", "t", "i", "o", "n", "\"", " ", "c", "o", "n", "t", "e", "n", "t", "=", "\"">>
\* `<meta property="og:image" content="`
StrMetaOgImage ==
    <<"<", "m", "e", "t", "a", " ", "p", "r", "o", "p", "e", "r", "t", "y", "=", "\"", "o", "g", ":", "i", "m", "a", "g", "e", "\"", " ", "c", "o", "n", "t", "e", "n", "t", "=", "\"">>
\* `<meta property="og:type" content="website" />`
StrMetaOgType ==
    <<"<", "m", "e", "t", "a", " ", "p", "r", "o", "p", "e", "r", "t", "y", "=", "\"", "o", "g", ":", "t", "y", "p", "e", "\"", " ", "c", "o", "n", "t", "e", "n", "t", "=", "\"", "w", "e", "b", "s", "i", "t", "e", "\"", " ", "/", ">">>
\* `<meta name="twitter:title" content="`
StrMetaTwitterTitle ==
    <<"<", "m", "e", "t", "a", " ", "n", "a", "m", "e", "=", "\"", "t", "w", "i", "t", "t", "e", "r", ":", "t", "i", "t", "l", "e", "\"", " ", "c", "o", "n", "t", "e", "n", "t", "=", "\"">>
\* `<meta name="twitter:description" content="`
StrMetaTwitterDescription ==
    <<"<", "m", "e", "t", "a", " ", "n", "a", "m", "e", "=", "\"", "t", "w", "i", "t", "t", "e", "r", ":", "d", "e", "s", "c", "r", "i", "p", "t", "i", "o", "n", "\"", " ", "c", "o", "n", "t", "e", "n", "t", "=", "\"">>
\* `<meta name="twitter:image" content="`
StrMetaTwitterImage ==
    <<"<", "m", "e", "t", "a", " ", "n", "a", "m", "e", "=", "\"", "t", "w", "i", "t", "t", "e", "r", ":", "i", "m", "a", "g", "e", "\"", " ", "c", "o", "n", "t", "e", "n", "t", "=", "\"">>
\* `<meta name="twitter:card" content="summary_large_image" />`
StrMetaTwitterCard ==
    <<"<", "m", "e", "t", "a", " ", "n", "a", "m", "e", "=", "\"", "t", "w", "i", "t", "t", "e", "r", ":", "c", "a", "r", "d", "\"", " ", "c", "o", "n", "t", "e", "n", "t", "=", "\"", "s", "u", "m", "m", "a", "r", "y", "_", "l", "a", "r", "g", "e", "_", "i", "m", "a", "g", "e", "\"", " ", "/", ">">>
\* `<meta property="og:url" content="`
StrMetaOgUrl ==
    <<"<", "m", "e", "t", "a", " ", "p", "r", "o", "p", "e", "r", "t", "y", "=", "\"", "o", "g", ":", "u", "r", "l", "\"", " ", "c", "o", "n", "t", "e", "n", "t", "=", "\"">>
\* `" />`
StrMetaClose ==
    <<"\"", " ", "/", ">">>
\* `<script>window.location.href = "`
StrScriptOpen ==
    <<"<", "s", "c", "r", "i", "p", "t", ">", "w", "i", "n", "d", "o", "w", ".", "l", "o", "c", "a", "t", "i", "o", "n", ".", "h", "r", "e", "f", " ", "=", " ", "\"">>
\* `";</script>`
StrScriptClose ==
    <<"\"", ";", "<", "/", "s", "c", "r", "i", "p", "t", ">">>
\* `Failed to marshal activity payload`
StrWrapMarshal ==
    <<"F", "a", "i", "l", "e", "d", " ", "t", "o", " ", "m", "a", "r", "s", "h", "a", "l", " ", "a", "c", "t", "i", "v", "i", "t", "y", " ", "p", "a", "y", "l", "o", "a", "d">>
\* `Failed to create activity`
StrWrapCreate ==
    <<"F", "a", "i", "l", "e", "d", " ", "t", "o", " ", "c", "r", "e", "a", "t", "e", " ", "a", "c", "t", "i", "v", "i", "t", "y">>
\* `: `
StrColonSpace ==
    <<":", " ">>

----------------------------------------------------------------------------
(* Generic string helpers (Go's strings package and fmt.Sprintf("%s")) *)

RECURSIVE Concat(_)
\* strings.Join(parts, "") and the "%s" interpolation of fmt.Sprintf
Concat(parts) ==
    IF parts = <<>> THEN <<>> ELSE Head(parts) \o Concat(Tail(parts))

\* strings.HasPrefix
HasPrefix(s, p) ==
    Len(s) >= Len(p) /\ SubSeq(s, 1, Len(p)) = p

\* strings.Index for a one-character separator; 0 when absent (Go: -1)
IndexOf(s, c) ==
    IF \E i \in 1..Len(s) : s[i] = c
    THEN CHOOSE i \in 1..Len(s) : s[i] = c /\ \A j \in 1..(i - 1) : s[j] # c
    ELSE 0

\* strings.LastIndex for a one-character separator; 0 when absent
LastIndexOf(s, c) ==
    IF \E i \in 1..Len(s) : s[i] = c
    THEN CHOOSE i \in 1..Len(s) : s[i] = c /\ \A j \in (i + 1)..Len(s) : s[j] # c
    ELSE 0

\* s[i:] with Go's zero-based i
From(s, i) == SubSeq(s, i + 1, Len(s))

\* substring test used by the properties
Contains(s, p) ==
    \E i \in 1..(Len(s) - Len(p) + 1) :
        /\ s[i] = p[1]
        /\ SubSeq(s, i, i + Len(p) - 1) = p

----------------------------------------------------------------------------
(* net/url.ParseRequestURI, as called by isValidURLString *)

\* the letters and digits that links of the model are written with
Letters == {"a", "b", "c", "d", "e", "f", "h", "s", "t", "p", "x"}
Digits == {"0", "1", "2", "3", "4", "5", "6", "7", "8", "9"}
HexDigits == Digits \cup {"a", "b", "c", "d", "e", "f"}
\* characters url.shouldEscape(c, encodeHost) leaves alone
HostSafe ==
    Letters \cup Digits \cup
    {"!", "$", "&", "'", "(", ")", "*", "+", ",", ";", "=", ":", "[", "]",
     "<", ">", "\"", "-", "_", ".", "~"}

\* getScheme: [err, scheme, rest]
getScheme(rawURL) ==
    LET stop(i) ==
            \/ rawURL[i] = ":"
            \/ (rawURL[i] \in Digits \cup {"+", "-", "."} /\ i = 1)
            \/ rawURL[i] \notin Letters \cup Digits \cup {"+", "-", "."}
        none == [err |-> FALSE, scheme |-> <<>>, rest |-> rawURL]
    IN  IF \E i \in 1..Len(rawURL) : stop(i)
        THEN LET i == CHOOSE k \in 1..Len(rawURL) :
                          stop(k) /\ \A j \in 1..(k - 1) : ~stop(j)
             IN  IF rawURL[i] = ":"
                 THEN IF i = 1
                      THEN [err |-> TRUE, scheme |-> <<>>, rest |-> <<>>]
                      ELSE [err |-> FALSE,
                            scheme |-> SubSeq(rawURL, 1, i - 1),
                            rest |-> From(rawURL, i)]
                 ELSE none
        ELSE none

RECURSIVE unescapeOK(_, _)
\* url.unescape(s, mode) returns no error; host is TRUE for mode encodeHost
unescapeOK(s, host) ==
    IF s = <<>> THEN TRUE
    ELSE IF Head(s) = "%"
         THEN /\ Len(s) >= 3
              /\ s[2] \in HexDigits
              /\ s[3] \in HexDigits
              /\ (host => (s[2] \notin {"0", "1", "2", "3", "4", "5", "6", "7"}
                             \/ SubSeq(s, 1, 3) = <<"%", "2", "5">>))
              /\ unescapeOK(From(s, 3), host)
         ELSE /\ (host /\ Head(s) # "+") => Head(s) \in HostSafe
              /\ unescapeOK(Tail(s), host)

\* url.validOptionalPort
validOptionalPort(port) ==
    \/ port = <<>>
    \/ /\ port[1] = ":"
       /\ \A i \in 2..Len(port) : port[i] \in Digits

\* url.parseHost returns no error (hosts without "[", the alphabet has none)
parseHostOK(host) ==
    /\ LET i == LastIndexOf(host, ":")
       IN  i # 0 => validOptionalPort(From(host, i - 1))
    /\ unescapeOK(host, TRUE)

\* url.parseAuthority returns no error (authorities without "@")
parseAuthorityOK(authority) == parseHostOK(authority)

\* url.parse(rawURL, viaRequest = true) returns no error
parseRequestURIOK(rawURL) ==
    IF rawURL = <<>> THEN FALSE
    ELSE IF rawURL = <<"*">> THEN TRUE
    ELSE LET sch == getScheme(rawURL)
             rest0 == sch.rest
             q == IndexOf(rest0, "?")
             \* both branches of the "?" handling leave the text before the
             \* first "?" in rest
             rest == IF q = 0 THEN rest0 ELSE SubSeq(rest0, 1, q - 1)
         IN  IF sch.err THEN FALSE
             ELSE IF ~HasPrefix(rest, <<"/">>)
                  THEN sch.scheme # <<>>
             ELSE IF sch.scheme # <<>> /\ HasPrefix(rest, <<"/", "/">>)
                  THEN LET auth0 == From(rest, 2)
                           i == IndexOf(auth0, "/")
                           authority == IF i = 0 THEN auth0
                                        ELSE SubSeq(auth0, 1, i - 1)
                           path == IF i = 0 THEN <<>> ELSE From(auth0, i - 1)
                       IN  parseAuthorityOK(authority) /\ unescapeOK(path, FALSE)
             ELSE unescapeOK(rest, FALSE)

isValidURLString(s) == parseRequestURIOK(s)

----------------------------------------------------------------------------
(* html.EscapeString *)

htmlEscapeChar(c) ==
    CASE c = "&" -> <<"&", "a", "m", "p", ";">>
      [] c = "'" -> <<"&", "#", "3", "9", ";">>
      [] c = "<" -> <<"&", "l", "t", ";">>
      [] c = ">" -> <<"&", "g", "t", ";">>
      [] c = "\"" -> <<"&", "#", "3", "4", ";">>
      [] OTHER -> <<c>>

RECURSIVE EscapeString(_)
EscapeString(s) ==
    IF s = <<>> THEN <<>> ELSE htmlEscapeChar(Head(s)) \o EscapeString(Tail(s))

----------------------------------------------------------------------------
(* Values *)

\* pointers: the empty set is nil, a singleton holds the pointee
Nil == {}
Ref(x) == {x}
Deref(p) == CHOOSE x \in p : TRUE

\* storepb.Visibility
Visibilities == {"VISIBILITY_UNSPECIFIED", "PRIVATE", "WORKSPACE", "PUBLIC"}

\* responses written through echo.Context; status 0 is "nothing written yet"
NoResponse ==
    [status |-> 0, contentType |-> "", location |-> <<>>, body |-> <<>>,
     internal |-> <<>>]

\* c.Redirect(code, url)
Redirect(code, url) ==
    [status |-> code, contentType |-> "", location |-> url, body |-> <<>>,
     internal |-> <<>>]

\* c.String(code, s)
String(code, s) ==
    [status |-> code, contentType |-> "text/plain", location |-> <<>>,
     body |-> s, internal |-> <<>>]

\* c.HTML(code, html)
HTML(code, html) ==
    [status |-> code, contentType |-> "text/html", location |-> <<>>,
     body |-> html, internal |-> <<>>]

\* echo.NewHTTPError(code, message).SetInternal(err), as returned to echo
HTTPError(code, message, err) ==
    [status |-> code, contentType |-> "application/json", location |-> <<>>,
     body |-> message, internal |-> err]

StatusOK == 200
StatusSeeOther == 303
StatusBadRequest == 400
StatusUnauthorized == 401
StatusInternalServerError == 500

----------------------------------------------------------------------------
(* redirectToShortcut *)

\* faulty variant: only a nil metadata pointer counts as no metadata
noMetadata_NilOnly(shortcut) == shortcut.ogMetadata = Nil

\* the condition of the first branch: metadata nil or all three fields empty
noMetadata(shortcut) ==
    \/ shortcut.ogMetadata = Nil
    \/ LET og == Deref(shortcut.ogMetadata)
       IN  og.title = <<>> /\ og.description = <<>> /\ og.image = <<>>

\* faulty variant: og:url is appended whatever the link is
metadataList_AlwaysOgUrl(shortcut, isValidURL) ==
    LET og == Deref(shortcut.ogMetadata)
    IN  <<Concat(<<StrTitleOpen, og.title, StrTitleClose>>),
          Concat(<<StrMetaDescription, og.description, StrMetaClose>>),
          Concat(<<StrMetaOgTitle, og.title, StrMetaClose>>),
          Concat(<<StrMetaOgDescription, og.description, StrMetaClose>>),
          Concat(<<StrMetaOgImage, og.image, StrMetaClose>>),
          StrMetaOgType,
          Concat(<<StrMetaTwitterTitle, og.title, StrMetaClose>>),
          Concat(<<StrMetaTwitterDescription, og.description, StrMetaClose>>),
          Concat(<<StrMetaTwitterImage, og.image, StrMetaClose>>),
          StrMetaTwitterCard,
          Concat(<<StrMetaOgUrl, shortcut.link, StrMetaClose>>)>>

metadataList(shortcut, isValidURL) ==
    LET og == Deref(shortcut.ogMetadata)
    IN  <<Concat(<<StrTitleOpen, og.title, StrTitleClose>>),
          Concat(<<StrMetaDescription, og.description, StrMetaClose>>),
          Concat(<<StrMetaOgTitle, og.title, StrMetaClose>>),
          Concat(<<StrMetaOgDescription, og.description, StrMetaClose>>),
          Concat(<<StrMetaOgImage, og.image, StrMetaClose>>),
          StrMetaOgType,
          Concat(<<StrMetaTwitterTitle, og.title, StrMetaClose>>),
          Concat(<<StrMetaTwitterDescription, og.description, StrMetaClose>>),
          Concat(<<StrMetaTwitterImage, og.image, StrMetaClose>>),
          StrMetaTwitterCard>>
        \o (IF isValidURL
            THEN <<Concat(<<StrMetaOgUrl, shortcut.link, StrMetaClose>>)>>
            ELSE <<>>)

\* faulty variant: the link text of a raw link is written without html.EscapeString
htmlBody_Raw(shortcut, isValidURL) ==
    IF isValidURL
    THEN Concat(<<StrScriptOpen, shortcut.link, StrScriptClose>>)
    ELSE shortcut.link

htmlBody(shortcut, isValidURL) ==
    IF isValidURL
    THEN Concat(<<StrScriptOpen, shortcut.link, StrScriptClose>>)
    ELSE EscapeString(shortcut.link)

\* faulty variant: a shortcut without metadata is redirected whatever its link is
redirectToShortcut_AlwaysRedirect(shortcut) ==
    LET isValidURL == isValidURLString(shortcut.link)
    IN  IF noMetadata(shortcut)
        THEN Redirect(StatusSeeOther, shortcut.link)
        ELSE HTML(StatusOK,
                  Concat(<<StrHtmlOpen,
                           Concat(metadataList(shortcut, isValidURL)),
                           StrHeadClose,
                           htmlBody(shortcut, isValidURL),
                           StrHtmlClose>>))

\* faulty variant: once the shortcut has two recorded views its link is
\* shown as text instead of being redirected to
redirectToShortcut_ViewLimit(shortcut) ==
    LET isValidURL == isValidURLString(shortcut.link)
        views == {i \in 1..Len(activities) : activities[i].Payload[2] = shortcut.id}
    IN  IF noMetadata(shortcut)
        THEN IF isValidURL /\ Cardinality(views) < 2
             THEN Redirect(StatusSeeOther, shortcut.link)
             ELSE String(StatusOK, shortcut.link)
        ELSE HTML(StatusOK,
                  Concat(<<StrHtmlOpen,
                           Concat(metadataList(shortcut, isValidURL)),
                           StrHeadClose,
                           htmlBody(shortcut, isValidURL),
                           StrHtmlClose>>))

redirectToShortcut(shortcut) ==
    LET isValidURL == isValidURLString(shortcut.link)
    IN  IF noMetadata(shortcut)
        THEN IF isValidURL
             THEN Redirect(StatusSeeOther, shortcut.link)
             ELSE String(StatusOK, shortcut.link)
        ELSE HTML(StatusOK,
                  Concat(<<StrHtmlOpen,
                           Concat(metadataList(shortcut, isValidURL)),
                           StrHeadClose,
                           htmlBody(shortcut, isValidURL),
                           StrHtmlClose>>))

----------------------------------------------------------------------------
(* Inputs of the redirector *)

Requests == 1..MaxRequests

\* shortcut names asked for; <<>> is the empty string the wildcard captures
\* for a request of the mount point itself
RequestNames == {<<>>, <<"a">>, <<"a", "&", "b">>}

\* c.ParamValues(): no value at all, or the one value of the wildcard
ParamValueInputs == {<<>>} \cup {<<n>> : n \in RequestNames}

UserIDs == {1, 2}

\* c.Get(userIDContextKey).(int32): the zero value and ok = false when the
\* request is not authenticated
UserInputs ==
    {[userID |-> 0, ok |-> FALSE]} \cup {[userID |-> u, ok |-> TRUE] : u \in UserIDs}

\* texts of the errors the store can return
ErrCauses == {<<"e", "1">>, <<"e", "2">>}

\* links and metadata of the stored shortcuts
StoredLinks == {<<"a", ":", "/", "/", "a">>, <<"a", "<">>}
NoOgFields == [title |-> <<>>, description |-> <<>>, image |-> <<>>]
StoredOgMetadata ==
    {Nil, Ref([title |-> <<"T">>, description |-> <<>>, image |-> <<>>])}

\* the shortcut tables the handler is run against: empty, or one shortcut
\* named "a" created by user 1
StoredShortcuts ==
    [id : {7}, name : {<<"a">>}, link : StoredLinks, visibility : Visibilities,
     creatorId : {1}, ogMetadata : StoredOgMetadata]
ShortcutTables == {{}} \cup {{s} : s \in StoredShortcuts}

\* c.RealIP(), Referer() and UserAgent() of request r
ClientOf(r) == [ip |-> r, referer |-> <<>>, userAgent |-> <<"u", "a">>]

----------------------------------------------------------------------------
(* Store collaborators *)

\* s.Store.GetShortcut(ctx, &store.FindShortcut{Name: &name}): the possible
\* results (shortcut, err): the row with that name, or nil, or a failure
GetShortcut(name) ==
    {[shortcut |-> {s \in shortcuts : s.name = name}, err |-> <<>>]}
    \cup {[shortcut |-> Nil, err |-> e] : e \in ErrCauses}

\* s.Store.CreateActivity(ctx, activity): the possible errors, <<>> is nil
CreateActivity(activity) == {<<>>} \cup ErrCauses

\* errors.Wrap(err, message)
Wrap(err, message) == Concat(<<message, StrColonSpace, err>>)

----------------------------------------------------------------------------
(* The handler registered by registerRedirectorRoutes *)

\* faulty variant: every non-public shortcut is visible to its creator only
visibilityCheck_CreatorOnly(shortcut, user) ==
    IF shortcut.visibility # "PUBLIC"
    THEN user.ok /\ shortcut.creatorId = user.userID
    ELSE TRUE

\* the visibility block: TRUE when the handler goes on to record the view
visibilityCheck(shortcut, user) ==
    IF shortcut.visibility # "PUBLIC"
    THEN IF ~user.ok
         THEN FALSE
         ELSE ~(shortcut.visibility = "PRIVATE" /\ shortcut.creatorId # user.userID)
    ELSE TRUE

\* faulty variant: the attempted name is left out of the redirect target
notFoundLocation_NoName(shortcutName) == StrNotFoundPrefix

\* the target of the not-found redirect
notFoundLocation(shortcutName) == Concat(<<StrNotFoundPrefix, shortcutName>>)

\* faulty variant: a failed lookup is answered like a missing shortcut
resolveResponse_ErrAsNotFound(paramValues, user, found) ==
    IF found.shortcut = Nil
    THEN Redirect(StatusSeeOther, notFoundLocation(paramValues[1]))
    ELSE IF ~visibilityCheck(Deref(found.shortcut), user)
    THEN HTTPError(StatusUnauthorized, StrUnauthorized, <<>>)
    ELSE NoResponse

\* faulty variant: the Unauthorized message names the link that was asked for
resolveResponse_Leak(paramValues, user, found) ==
    IF found.err # <<>>
    THEN HTTPError(StatusInternalServerError,
                   Concat(<<StrGetFailed, found.err>>), found.err)
    ELSE IF found.shortcut = Nil
    THEN Redirect(StatusSeeOther, notFoundLocation(paramValues[1]))
    ELSE IF ~visibilityCheck(Deref(found.shortcut), user)
    THEN HTTPError(StatusUnauthorized,
                   Concat(<<StrUnauthorized, StrColonSpace,
                            Deref(found.shortcut).link>>), <<>>)
    ELSE NoResponse

\* the handler from its entry to the visibility block, given what
\* GetShortcut returned: the response it returns, or NoResponse when it goes
\* on to createShortcutViewActivity
resolveResponse(paramValues, user, found) ==
    IF found.err # <<>>
    THEN HTTPError(StatusInternalServerError,
                   Concat(<<StrGetFailed, found.err>>), found.err)
    ELSE IF found.shortcut = Nil
    THEN Redirect(StatusSeeOther, notFoundLocation(paramValues[1]))
    ELSE IF ~visibilityCheck(Deref(found.shortcut), user)
    THEN HTTPError(StatusUnauthorized, StrUnauthorized, <<>>)
    ELSE NoResponse

IdleRequest ==
    [pc |-> "idle", paramValues |-> <<>>, user |-> [userID |-> 0, ok |-> FALSE],
     shortcut |-> Nil, err |-> <<>>, activityErr |-> <<>>, resp |-> NoResponse,
     getCalls |-> 0, createCalls |-> 0, enqueued |-> 0]

\* the user the visibility block reads: userID and ok are assigned at line 37,
\* inside the block, and keep their zero values when it is not entered
userRead(found, user) ==
    IF found.err = <<>> /\ found.shortcut # Nil
       /\ Deref(found.shortcut).visibility # "PUBLIC"
    THEN user
    ELSE [userID |-> 0, ok |-> FALSE]

\* lines 21-44: parameter check, lookup, not-found redirect, visibility
Resolve(r) ==
    /\ req[r].pc = "idle"
    /\ \E paramValues \in ParamValueInputs :
         IF Len(paramValues) = 0
         THEN req' = [req EXCEPT ![r] =
                        [@ EXCEPT !.pc = "done",
                                  !.paramValues = paramValues,
                                  !.resp = HTTPError(StatusBadRequest,
                                                     StrInvalidName, <<>>)]]
         ELSE \E found \in GetShortcut(paramValues[1]), ctxUser \in UserInputs :
                LET user == userRead(found, ctxUser)
                    resp == resolveResponse(paramValues, user, found)
                IN  req' = [req EXCEPT ![r] =
                              [@ EXCEPT !.pc = IF resp = NoResponse
                                               THEN "activity" ELSE "done",
                                        !.paramValues = paramValues,
                                        !.user = user,
                                        !.shortcut = found.shortcut,
                                        !.err = found.err,
                                        !.resp = resp,
                                        !.getCalls = @ + 1]]
    /\ UNCHANGED <<shortcuts, activities, metricQueue, renderVars, outsideRedirector>>

\* the store.Activity built by createShortcutViewActivity; the payload is the
\* JSON object of the four fields, kept as its list of keys and values
viewActivity(r, shortcut) ==
    [CreatorID |-> "BotID", Type |-> "ActivityShortcutView", Level |-> "INFO",
     Payload |-> <<"shortcutId", shortcut.id, "ip", ClientOf(r).ip,
                   "referer", ClientOf(r).referer,
                   "userAgent", ClientOf(r).userAgent>>]

\* faulty variant: a failed CreateActivity is swallowed
createShortcutViewActivity_Swallow(err) == <<>>

\* createShortcutViewActivity: the error it returns when CreateActivity
\* returned err (json.Marshal of a struct of an int and three strings does
\* not fail, so the first error return is never taken)
createShortcutViewActivity(err) ==
    IF err # <<>> THEN Wrap(err, StrWrapCreate) ELSE <<>>

\* faulty variant: a failed write is tried again instead of failing the request
afterActivity_Retry(q, err) ==
    IF err # <<>>
    THEN [q EXCEPT !.activityErr = err, !.createCalls = @ + 1]
    ELSE [q EXCEPT !.pc = "metric", !.activityErr = err, !.createCalls = @ + 1]

\* faulty variant: a recorded view goes straight to rendering, without the metric
afterActivity_SkipMetric(q, err) ==
    IF err # <<>>
    THEN [q EXCEPT !.pc = "done",
                   !.activityErr = err,
                   !.createCalls = @ + 1,
                   !.resp = HTTPError(StatusInternalServerError,
                                      Concat(<<StrActivityFailed, err>>), err)]
    ELSE [q EXCEPT !.pc = "render", !.activityErr = err, !.createCalls = @ + 1]

\* lines 46-48: the request q after createShortcutViewActivity returned err
afterActivity(q, err) ==
    IF err # <<>>
    THEN [q EXCEPT !.pc = "done",
                   !.activityErr = err,
                   !.createCalls = @ + 1,
                   !.resp = HTTPError(StatusInternalServerError,
                                      Concat(<<StrActivityFailed, err>>), err)]
    ELSE [q EXCEPT !.pc = "metric", !.activityErr = err, !.createCalls = @ + 1]

\* lines 46-48 with createShortcutViewActivity: record the view, fail the
\* request when that fails
RecordActivity(r) ==
    /\ req[r].pc = "activity"
    /\ LET activity == viewActivity(r, Deref(req[r].shortcut))
       IN  \E storeErr \in CreateActivity(activity) :
             /\ activities' = IF storeErr = <<>>
                              THEN Append(activities, activity)
                              ELSE activities
             /\ req' = [req EXCEPT ![r] =
                          afterActivity(@, createShortcutViewActivity(storeErr))]
    /\ UNCHANGED <<shortcuts, metricQueue, renderVars, outsideRedirector>>

\* line 50: metric.Enqueue("shortcut redirect")
EnqueueMetric(r) ==
    /\ req[r].pc = "metric"
    /\ metricQueue' = Append(metricQueue, StrShortcutRedirect)
    /\ req' = [req EXCEPT ![r] = [@ EXCEPT !.pc = "render", !.enqueued = @ + 1]]
    /\ UNCHANGED <<shortcuts, activities, renderVars, outsideRedirector>>

\* line 51: return redirectToShortcut(c, shortcut)
Render(r) ==
    /\ req[r].pc = "render"
    /\ req' = [req EXCEPT ![r] =
                 [@ EXCEPT !.pc = "done",
                           !.resp = redirectToShortcut(Deref(req[r].shortcut))]]
    /\ UNCHANGED <<shortcuts, activities, metricQueue, renderVars, outsideRedirector>>

----------------------------------------------------------------------------
(* redirectToShortcut on its own, over links drawn character by character *)

LinkAlphabet == {"a", ":", "/", "%", "<", " "}

RECURSIVE StringsUpTo(_)
StringsUpTo(n) ==
    IF n = 0 THEN {<<>>}
    ELSE LET shorter == StringsUpTo(n - 1)
         IN  shorter \cup {Append(s, c) : s \in shorter, c \in LinkAlphabet}

RenderLinks ==
    StringsUpTo(MaxLinkLen)
    \cup {<<"a", ":", "/", "/", "a">>, <<"a", ":", "/", "/", "a", "/", "<">>,
          <<"a", ":", "/", "/", " ">>, <<"a", ":", "/", "/", "a", ":", "8">>}

RenderOgMetadata ==
    {Nil, Ref(NoOgFields),
     Ref([title |-> <<"T">>, description |-> <<"D">>, image |-> <<>>]),
     Ref([title |-> <<"T">>, description |-> <<>>, image |-> <<>>]),
     Ref([title |-> <<>>, description |-> <<"D">>, image |-> <<>>]),
     Ref([title |-> <<>>, description |-> <<>>, image |-> <<"/", "i">>]),
     Ref([title |-> <<"<">>, description |-> <<"&">>, image |-> <<"\"">>])}

RenderShortcuts ==
    [id : {7}, name : {<<"a">>}, link : RenderLinks, visibility : {"PUBLIC"},
     creatorId : {1}, ogMetadata : RenderOgMetadata]

NoShortcut ==
    [id |-> 0, name |-> <<>>, link |-> <<>>, visibility |-> "PUBLIC",
     creatorId |-> 0, ogMetadata |-> Nil]

RenderCall ==
    /\ renderOut = NoResponse
    /\ renderOut' = redirectToShortcut(renderIn)
    /\ UNCHANGED <<renderIn, handlerVars, outsideRedirector>>

----------------------------------------------------------------------------
(* Specifications *)

\* the redirector serving MaxRequests requests concurrently
Init ==
    /\ shortcuts \in ShortcutTables
    /\ activities = <<>>
    /\ metricQueue = <<>>
    /\ req = [r \in Requests |-> IdleRequest]
    /\ renderIn = NoShortcut
    /\ renderOut = NoResponse
    /\ UsersIdle
    /\ DBIdle
    /\ RunIdle

Next ==
    \E r \in Requests :
        \/ Resolve(r)
        \/ RecordActivity(r)
        \/ EnqueueMetric(r)
        \/ Render(r)

Spec == Init /\ [][Next]_vars

\* redirectToShortcut applied to one shortcut
InitRender ==
    /\ shortcuts = {}
    /\ activities = <<>>
    /\ metricQueue = <<>>
    /\ req = [r \in Requests |-> IdleRequest]
    /\ renderIn \in RenderShortcuts
    /\ renderOut = NoResponse
    /\ UsersIdle
    /\ DBIdle
    /\ RunIdle

NextRender == RenderCall

SpecRender == InitRender /\ [][NextRender]_vars

----------------------------------------------------------------------------
(* Properties of the redirector *)

\* the request has entered the handler
Started(r) == req[r].pc # "idle"

\* the request has been answered
Done(r) == req[r].pc = "done"

\* the lookup of the request returned a shortcut
Resolved(r) == Started(r) /\ req[r].shortcut # Nil

\* the request passed the visibility block
Granted(r) ==
    \/ req[r].pc \in {"activity", "metric", "render"}
    \/ Done(r) /\ req[r].resp.status # StatusUnauthorized

\* the request was answered Unauthorized
Denied(r) == Done(r) /\ req[r].resp.status = StatusUnauthorized

\* the activity rows written for request r (the payload carries its address)
ActivitiesOf(r) == {i \in 1..Len(activities) : activities[i].Payload[4] = r}

\* the request was answered by redirectToShortcut
Rendered(r) ==
    Done(r) /\ Resolved(r) /\ req[r].resp.status \in {StatusOK, StatusSeeOther}

\* the request was answered with the redirect to the not-found page
NotFoundRedirect(r) ==
    /\ Done(r)
    /\ req[r].resp.status = StatusSeeOther
    /\ HasPrefix(req[r].resp.location, StrNotFoundPrefix)

\* C1 as stated: a resolved shortcut is accessible if and only if it is
\* PUBLIC or the caller is authenticated and is its creator; every other
\* caller of a non-public shortcut is answered 401.
C1_CreatorOnlyAccess ==
    \A r \in Requests :
        Resolved(r) =>
            LET s == Deref(req[r].shortcut)
                allowed == \/ s.visibility = "PUBLIC"
                           \/ req[r].user.ok /\ req[r].user.userID = s.creatorId
            IN  /\ Granted(r) <=> allowed
                /\ ~allowed => Denied(r)

\* C1 amended: a resolved shortcut is accessible if and only if it is PUBLIC,
\* or the caller is authenticated and either the shortcut is not PRIVATE or
\* the caller is its creator; every other caller is answered 401.
C1_VisibilityAccess ==
    \A r \in Requests :
        Resolved(r) =>
            LET s == Deref(req[r].shortcut)
                allowed == \/ s.visibility = "PUBLIC"
                           \/ /\ req[r].user.ok
                              /\ \/ s.visibility # "PRIVATE"
                                 \/ req[r].user.userID = s.creatorId
            IN  /\ Granted(r) <=> allowed
                /\ ~allowed => Denied(r)

\* an authenticated caller who is not the creator has been served a
\* WORKSPACE shortcut, and another request for it was denied
C1_Witness ==
    \E r \in Requests :
        /\ Rendered(r)
        /\ Deref(req[r].shortcut).visibility = "WORKSPACE"
        /\ req[r].user.ok
        /\ req[r].user.userID # Deref(req[r].shortcut).creatorId
        /\ \E o \in Requests : Denied(o)

\* C2: a request answered 401 has written no view activity, has enqueued no
\* metric, and its response is the fixed Unauthorized error, which carries
\* nothing of the shortcut.
C2_UnauthorizedNoEffects ==
    \A r \in Requests :
        req[r].resp.status = StatusUnauthorized =>
            /\ ActivitiesOf(r) = {}
            /\ req[r].createCalls = 0
            /\ req[r].enqueued = 0
            /\ req[r].resp = HTTPError(StatusUnauthorized, StrUnauthorized, <<>>)

\* an unauthenticated request for a PRIVATE shortcut was answered 401 while
\* another request for the same shortcut wrote its activity
C2_Witness ==
    \E r \in Requests :
        /\ Denied(r)
        /\ ~req[r].user.ok
        /\ Deref(req[r].shortcut).visibility = "PRIVATE"
        /\ Len(activities) = 1

\* C3 as stated: a request whose path segment is empty, the empty string the
\* wildcard captures included, is answered 400 and calls neither the lookup
\* nor the activity write.
C3_EmptySegmentIsBadRequest ==
    \A r \in Requests :
        (Started(r) /\ (req[r].paramValues = <<>> \/ req[r].paramValues[1] = <<>>)) =>
            /\ Done(r)
            /\ req[r].resp.status = StatusBadRequest
            /\ req[r].getCalls = 0
            /\ req[r].createCalls = 0

\* C4: a lookup that succeeds without a match is answered by a 303 redirect
\* to /404?shortcut=<name>, before the visibility block is entered, with no
\* activity written and no metric enqueued.
C4_NotFoundRedirect ==
    \A r \in Requests :
        (Started(r) /\ req[r].getCalls = 1 /\ req[r].err = <<>> /\ req[r].shortcut = Nil) =>
            /\ Done(r)
            /\ req[r].resp =
                 Redirect(StatusSeeOther, StrNotFoundPrefix \o req[r].paramValues[1])
            /\ ~req[r].user.ok
            /\ req[r].createCalls = 0
            /\ req[r].enqueued = 0
            /\ ActivitiesOf(r) = {}

\* a request for the name "a" found no shortcut in an empty table and was
\* redirected to the not-found page
C4_Witness ==
    \E r \in Requests :
        /\ NotFoundRedirect(r)
        /\ req[r].paramValues = << <<"a">> >>
        /\ shortcuts = {}

\* url.QueryUnescape on the escapes a name can need
RECURSIVE QueryUnescape(_)
QueryUnescape(s) ==
    IF s = <<>> THEN <<>>
    ELSE IF Head(s) = "+" THEN <<" ">> \o QueryUnescape(Tail(s))
    ELSE IF Head(s) = "%" /\ Len(s) >= 3
         THEN LET hex == SubSeq(s, 2, 3)
                  c == CASE hex = <<"2", "6">> -> "&"
                         [] hex = <<"2", "3">> -> "#"
                         [] hex = <<"3", "D">> -> "="
                         [] hex = <<"2", "0">> -> " "
                         [] hex = <<"2", "5">> -> "%"
                         [] hex = <<"2", "B">> -> "+"
                         [] OTHER -> "?"
              IN  <<c>> \o QueryUnescape(From(s, 3))
    ELSE <<Head(s)>> \o QueryUnescape(Tail(s))

\* the value of the query parameter "shortcut" of a redirect target, as a
\* URL parser reads it: the query runs from the first "?" to the first "#",
\* its pairs are separated by "&", the value follows the first "=" of the pair
ShortcutQueryParam(location) ==
    LET q == IndexOf(location, "?")
        afterQ == IF q = 0 THEN <<>> ELSE From(location, q)
        h == IndexOf(afterQ, "#")
        query == IF h = 0 THEN afterQ ELSE SubSeq(afterQ, 1, h - 1)
        a == IndexOf(query, "&")
        pair == IF a = 0 THEN query ELSE SubSeq(query, 1, a - 1)
        e == IndexOf(pair, "=")
    IN  IF e = 0 THEN <<>> ELSE QueryUnescape(From(pair, e))

\* C5 as stated: in the not-found redirect the name is URL-encoded, so that
\* decoding the query parameter "shortcut" of the Location gives back exactly
\* the name that was asked for.
C5_NotFoundNameRoundTrips ==
    \A r \in Requests :
        NotFoundRedirect(r) =>
            ShortcutQueryParam(req[r].resp.location) = req[r].paramValues[1]

\* C6: one view activity is written for each request answered by
\* redirectToShortcut, none for a request answered 400, 401, by the not-found
\* redirect or after a failed lookup, and the activity table holds as many
\* rows as there are requests rendered or past their activity write.
C6_OneActivityPerRendering ==
    /\ \A r \in Requests :
         /\ Rendered(r) => Cardinality(ActivitiesOf(r)) = 1
         /\ (Done(r) /\ (\/ req[r].resp.status \in {StatusBadRequest, StatusUnauthorized}
                         \/ NotFoundRedirect(r)
                         \/ req[r].err # <<>>))
               => ActivitiesOf(r) = {}
    /\ Len(activities) =
         Cardinality({r \in Requests : Rendered(r) \/ req[r].pc \in {"metric", "render"}})

\* two requests were rendered and a row was written for each; the second
\* request began before the first was answered
C6_Witness ==
    /\ \A r \in Requests : r <= 2 => Rendered(r)
    /\ Len(activities) >= 2
    /\ activities[1].Payload[4] = 2
    /\ activities[2].Payload[4] = 1

\* C7: when recording the view activity fails the request is answered 500:
\* nothing of the shortcut is rendered, no metric is enqueued, and the write
\* is made once only.
C7_ActivityFailureFailsRequest ==
    \A r \in Requests :
        /\ req[r].createCalls <= 1
        /\ req[r].activityErr # <<>> =>
             /\ Done(r)
             /\ req[r].resp.status = StatusInternalServerError
             /\ req[r].resp.location = <<>>
             /\ req[r].resp.contentType \notin {"text/plain", "text/html"}
             /\ req[r].enqueued = 0
             /\ req[r].createCalls = 1
             /\ ActivitiesOf(r) = {}

\* a request that passed the visibility block was answered 500 because its
\* activity write failed
C7_Witness ==
    \E r \in Requests :
        /\ Done(r)
        /\ req[r].activityErr # <<>>
        /\ req[r].resp.status = StatusInternalServerError
        /\ metricQueue = <<>>

\* C8: a failed lookup is answered 500, never by the not-found redirect, and
\* writes no activity; the not-found redirect is returned only for a lookup
\* that succeeded without a match.
C8_LookupErrorIsInternal ==
    \A r \in Requests :
        /\ req[r].err # <<>> =>
             /\ Done(r)
             /\ req[r].resp.status = StatusInternalServerError
             /\ req[r].createCalls = 0
             /\ ActivitiesOf(r) = {}
        /\ NotFoundRedirect(r) =>
             /\ req[r].err = <<>>
             /\ req[r].shortcut = Nil
             /\ req[r].getCalls = 1

\* the lookup of a name that is stored failed and was answered 500
C8_Witness ==
    \E r \in Requests :
        /\ req[r].err # <<>>
        /\ req[r].resp.status = StatusInternalServerError
        /\ \E s \in shortcuts : req[r].paramValues = <<s.name>>

----------------------------------------------------------------------------
(* Properties of redirectToShortcut *)

\* metadata is present when at least one of its three fields is non-empty
HasOgMetadata(shortcut) ==
    /\ shortcut.ogMetadata # Nil
    /\ \E og \in shortcut.ogMetadata :
         og.title # <<>> \/ og.description # <<>> \/ og.image # <<>>

\* the link is well-formed: it parses as a request URI
WellFormed(link) == isValidURLString(link)

\* C9: without metadata a well-formed link is answered by a 303 redirect
\* whose Location is the link, any other link by 200 with the link verbatim
\* as plain text; no HTML page is produced.
C9_NoMetadataRendering ==
    (renderOut # NoResponse /\ ~HasOgMetadata(renderIn)) =>
        /\ WellFormed(renderIn.link) =>
             /\ renderOut.status = StatusSeeOther
             /\ renderOut.location = renderIn.link
             /\ renderOut.body = <<>>
        /\ ~WellFormed(renderIn.link) =>
             /\ renderOut.status = StatusOK
             /\ renderOut.contentType = "text/plain"
             /\ renderOut.body = renderIn.link
             /\ renderOut.location = <<>>
        /\ renderOut.contentType # "text/html"

\* a raw link holding "<" was written verbatim as plain text
C9_Witness ==
    /\ renderIn.ogMetadata = Nil
    /\ renderIn.link = <<"a", "<">>
    /\ renderOut.status = StatusOK
    /\ renderOut.body = <<"a", "<">>

\* C10: with metadata the response is 200 HTML and never a redirect; the
\* page holds the og:url tag and the window.location.href script exactly
\* when the link is well-formed, and otherwise its body is the HTML-escaped
\* link and holds no script.
C10_MetadataRendering ==
    (renderOut # NoResponse /\ HasOgMetadata(renderIn)) =>
        LET link == renderIn.link
            page == renderOut.body
            ogUrl == Concat(<<StrMetaOgUrl, link, StrMetaClose>>)
            script == Concat(<<StrScriptOpen, link, StrScriptClose>>)
            escaped == Concat(<<StrHeadClose, EscapeString(link), StrHtmlClose>>)
        IN  /\ renderOut.status = StatusOK
            /\ renderOut.contentType = "text/html"
            /\ renderOut.location = <<>>
            /\ Contains(page, StrMetaOgUrl) <=> WellFormed(link)
            /\ Contains(page, StrScriptOpen) <=> WellFormed(link)
            /\ WellFormed(link) => Contains(page, ogUrl) /\ Contains(page, script)
            /\ ~WellFormed(link) =>
                 SubSeq(page, Len(page) - Len(escaped) + 1, Len(page)) = escaped

\* a shortcut with a title and a raw link holding "<" was rendered as a page
C10_Witness ==
    /\ HasOgMetadata(renderIn)
    /\ renderIn.link = <<"a", "<">>
    /\ renderOut.status = StatusOK
    /\ Contains(renderOut.body, <<"a", "&", "l", "t", ";">>)


\* C11 as stated: in the HTML page the tags og:url and twitter:image are
\* included only when the link is well-formed; for any other link neither
\* of them is in the page.
C11_UrlTagsOnlyWhenWellFormed ==
    (renderOut # NoResponse /\ HasOgMetadata(renderIn)) =>
        /\ Contains(renderOut.body, StrMetaOgUrl) => WellFormed(renderIn.link)
        /\ Contains(renderOut.body, StrMetaTwitterImage) => WellFormed(renderIn.link)

\* C11 amended: og:url is in the page exactly when the link is well-formed;
\* twitter:image, like og:image, is in every page with the image of the
\* metadata, whatever the link is.
C11_OgUrlOnlyWhenWellFormed ==
    (renderOut # NoResponse /\ HasOgMetadata(renderIn)) =>
        LET image == Deref(renderIn.ogMetadata).image
        IN  /\ Contains(renderOut.body, StrMetaOgUrl) <=> WellFormed(renderIn.link)
            /\ Contains(renderOut.body,
                        Concat(<<StrMetaTwitterImage, image, StrMetaClose>>))
            /\ Contains(renderOut.body,
                        Concat(<<StrMetaOgImage, image, StrMetaClose>>))

\* a page was rendered for a raw link and holds the twitter:image tag of
\* the image /i
C11_Witness ==
    /\ renderOut.contentType = "text/html"
    /\ ~WellFormed(renderIn.link)
    /\ renderIn.link # <<>>
    /\ Contains(renderOut.body,
                Concat(<<StrMetaTwitterImage, <<"/", "i">>, StrMetaClose>>))

\* C12: a shortcut whose metadata has three empty fields is answered exactly
\* as the same shortcut with no metadata at all, by a 303 redirect to a
\* well-formed link and by the link as plain text otherwise; one non-empty
\* field is enough for the HTML page.
C12_EmptyMetadataIsAbsent ==
    renderOut # NoResponse =>
        /\ renderIn.ogMetadata = Ref(NoOgFields) =>
             /\ renderOut = redirectToShortcut([renderIn EXCEPT !.ogMetadata = Nil])
             /\ renderOut = IF WellFormed(renderIn.link)
                            THEN Redirect(StatusSeeOther, renderIn.link)
                            ELSE String(StatusOK, renderIn.link)
        /\ (renderOut.contentType = "text/html") <=> HasOgMetadata(renderIn)

\* a shortcut with three empty metadata fields and a well-formed link was
\* redirected
C12_Witness ==
    /\ renderIn.ogMetadata = Ref(NoOgFields)
    /\ renderIn.link = <<"a", ":", "/", "/", "a">>
    /\ renderOut.status = StatusSeeOther
    /\ renderOut.location = renderIn.link


----------------------------------------------------------------------------
(* Further properties of the redirector *)

\* the message of an HTTPError is what echo's error handler sends to the
\* client; the internal error is kept for the server's log
ClientMessage(r) == req[r].resp.body

\* C13 as stated: the message a 500 response sends to the client is generic:
\* two lookup failures, or two activity-write failures, with different
\* causes send the same message.
C13_GenericInternalError ==
    \A r1, r2 \in Requests :
        (/\ Done(r1) /\ req[r1].resp.status = StatusInternalServerError
         /\ Done(r2) /\ req[r2].resp.status = StatusInternalServerError
         /\ (req[r1].err # <<>>) = (req[r2].err # <<>>))
            => ClientMessage(r1) = ClientMessage(r2)

\* C14 as stated: in the HTML page title and description are HTML-escaped
\* wherever they are interpolated, and the link text of a raw link is
\* escaped in the body.
C14_MetadataEscaped ==
    (renderOut # NoResponse /\ HasOgMetadata(renderIn)) =>
        LET og == Deref(renderIn.ogMetadata)
            title == EscapeString(og.title)
            description == EscapeString(og.description)
            page == renderOut.body
        IN  /\ Contains(page, Concat(<<StrTitleOpen, title, StrTitleClose>>))
            /\ Contains(page, Concat(<<StrMetaDescription, description, StrMetaClose>>))
            /\ Contains(page, Concat(<<StrMetaOgTitle, title, StrMetaClose>>))
            /\ Contains(page, Concat(<<StrMetaOgDescription, description, StrMetaClose>>))
            /\ Contains(page, Concat(<<StrMetaTwitterTitle, title, StrMetaClose>>))
            /\ Contains(page, Concat(<<StrMetaTwitterDescription, description, StrMetaClose>>))
            /\ ~WellFormed(renderIn.link) =>
                 Contains(page, Concat(<<StrHeadClose, EscapeString(renderIn.link),
                                         StrHtmlClose>>))

\* C15: the metric is enqueued once for each request that passed the
\* visibility block and recorded its view, after the write and before the
\* response is written; never for a request answered 400, 401, by the
\* not-found redirect or 500; and the response is what redirectToShortcut
\* gives for the shortcut.
C15_MetricOncePerRecordedView ==
    /\ \A r \in Requests :
         /\ req[r].enqueued <= 1
         /\ req[r].enqueued = 1 =>
              /\ req[r].createCalls = 1
              /\ req[r].activityErr = <<>>
              /\ Cardinality(ActivitiesOf(r)) = 1
         /\ req[r].pc \in {"idle", "activity", "metric"} => req[r].enqueued = 0
         /\ req[r].pc = "render" => req[r].enqueued = 1 /\ req[r].resp = NoResponse
         /\ Rendered(r) =>
              /\ req[r].enqueued = 1
              /\ req[r].resp = redirectToShortcut(Deref(req[r].shortcut))
         /\ (Done(r) /\ ~Rendered(r)) => req[r].enqueued = 0
    /\ Len(metricQueue) = Cardinality({r \in Requests : req[r].enqueued = 1})
    /\ \A i \in 1..Len(metricQueue) : metricQueue[i] = StrShortcutRedirect

\* one request has enqueued its metric and not yet written its response,
\* while another was answered 401 without a metric
C15_Witness ==
    \E r, o \in Requests :
        /\ req[r].pc = "render"
        /\ req[r].enqueued = 1
        /\ Denied(o)
        /\ Len(metricQueue) = 1

\* the request ran into no store failure
NoStoreFailure(r) == req[r].err = <<>> /\ req[r].activityErr = <<>>

\* C16: with the shortcut table unchanged, two resolutions of the same name
\* by the same caller that meet no store failure get the same response,
\* whatever activity rows were written before; each rendered resolution
\* adds one activity row of its own.
C16_RepeatedResolutionSameResponse ==
    \A r1, r2 \in Requests :
        (/\ Done(r1) /\ Done(r2)
         /\ req[r1].paramValues = req[r2].paramValues
         /\ req[r1].user = req[r2].user
         /\ NoStoreFailure(r1) /\ NoStoreFailure(r2))
            => /\ req[r1].resp = req[r2].resp
               /\ Rendered(r1) => /\ Cardinality(ActivitiesOf(r1)) = 1
                                  /\ Cardinality(ActivitiesOf(r2)) = 1

\* the shortcut "a" was resolved twice by the same caller and redirected
\* twice, the second time with the first view already recorded
C16_Witness ==
    \E r1, r2 \in Requests :
        /\ r1 # r2
        /\ Rendered(r1) /\ Rendered(r2)
        /\ req[r1].paramValues = req[r2].paramValues
        /\ req[r1].user = req[r2].user
        /\ req[r1].resp.status = StatusSeeOther
        /\ req[r1].resp = req[r2].resp
        /\ Len(activities) = 2


----------------------------------------------------------------------------
(* The user store (package store in src/cmd/shortify/main.go): the table    *)
(* "user" behind CreateUser, UpdateUser, ListUsers, GetUser and DeleteUser, *)
(* and the cache userCache in front of it.  Every database statement and    *)
(* every cache operation is one step; goroutines interleave between them.   *)

UserRowIDs == 1..MaxUsers
Roles == {"ADMIN", "USER"}
RowStatuses == {"NORMAL", "ARCHIVED"}

\* the error values of the store; "" is nil
ErrDB == "database error"
ErrNoRows == "sql: no rows in result set"
ErrNoFields == "no fields to update"

\* the arguments the calls are made with: users are created with the role
\* USER, updates promote them to ADMIN or archive them, and finds filter on
\* the id, on the status NORMAL and on the role USER
CreateInputs ==
    [Email : {"e"}, Nickname : {"n"}, PasswordHash : {"h"}, Role : {"USER"}]
UpdateInputs ==
    [ID : UserRowIDs,
     RowStatus : {Nil, Ref("ARCHIVED")},
     Email : {Nil}, Nickname : {Nil}, PasswordHash : {Nil},
     Role : {Nil, Ref("ADMIN")}]
FindInputs ==
    [ID : {Nil} \cup {Ref(i) : i \in UserRowIDs},
     RowStatus : {Nil, Ref("NORMAL")},
     Email : {Nil}, Nickname : {Nil},
     Role : {Nil, Ref("USER")}]
DeleteInputs == [ID : UserRowIDs]

\* the functions of the store that read the table, and those that write it
ReadOps == {"ListUsers", "GetUser"}
WriteOps == {"CreateUser", "UpdateUser", "DeleteUser"}

\* the database clock read by the defaults of created_ts and updated_ts: it
\* advances with every insert
DBNow == nextUserID

\* INSERT INTO user (...) VALUES (?, ?, ?, ?) RETURNING ...: the new row,
\* which is also the struct CreateUser fills in and returns
insertedUser(create) ==
    [ID |-> nextUserID, CreatedTs |-> DBNow, UpdatedTs |-> DBNow,
     RowStatus |-> "NORMAL", Email |-> create.Email,
     Nickname |-> create.Nickname, PasswordHash |-> create.PasswordHash,
     Role |-> create.Role]

\* the SET list UpdateUser builds: the columns whose field is not nil
setList(update) ==
    {f \in {"RowStatus", "Email", "Nickname", "PasswordHash", "Role"} :
        update[f] # Nil}

\* UPDATE user SET ... WHERE id = ? RETURNING ...: the row after the update
updatedUser(row, update) ==
    [f \in DOMAIN row |->
        IF f \in setList(update) THEN Deref(update[f]) ELSE row[f]]

\* RowStatus.String()
RowStatusString(v) == IF v \in RowStatuses THEN v ELSE ""

\* the WHERE clause ListUsers builds
whereClause(row, find) ==
    /\ find.ID # Nil => row.ID = Deref(find.ID)
    /\ find.RowStatus # Nil => row.RowStatus = RowStatusString(Deref(find.RowStatus))
    /\ find.Email # Nil => row.Email = Deref(find.Email)
    /\ find.Nickname # Nil => row.Nickname = Deref(find.Nickname)
    /\ find.Role # Nil => row.Role = Deref(find.Role)

RECURSIVE orderedRows(_)
\* ORDER BY updated_ts DESC, created_ts DESC
orderedRows(rows) ==
    IF rows = {} THEN <<>>
    ELSE LET first == CHOOSE r \in rows :
                 \A o \in rows :
                     \/ r.UpdatedTs > o.UpdatedTs
                     \/ r.UpdatedTs = o.UpdatedTs /\ r.CreatedTs >= o.CreatedTs
         IN  <<first>> \o orderedRows(rows \ {first})

\* SELECT ... FROM user WHERE ... ORDER BY ...
selectUsers(find) == orderedRows({row \in userTable : whereClause(row, find)})

\* s.userCache.Load(key): nil when there is no entry
cacheLoad(cache, key) == {en.value : en \in {e \in cache : e.key = key}}

\* s.userCache.Store(key, value)
cacheStore(cache, key, value) ==
    {en \in cache : en.key # key} \cup {[key |-> key, value |-> value]}

\* faulty variant: DeleteUser leaves the cache entry in place
cacheDelete_Keep(cache, key) == cache

\* s.userCache.Delete(key)
cacheDelete(cache, key) == {en \in cache : en.key # key}

NoUser == Nil
\* a goroutine before its first call: the function it is in, its position
\* there, the argument, the locals list, idx and user, the values returned,
\* and the number of calls it has made
IdleCall ==
    [op |-> "none", pc |-> "idle", arg |-> Nil, list |-> <<>>, idx |-> 0,
     user |-> NoUser, ret |-> NoUser, err |-> "", n |-> 0]

\* the goroutine is between two calls and makes calls of op
Ready(c, op) ==
    /\ call[c].pc \in {"idle", "returned"}
    /\ op \in userCallers[c]
    /\ call[c].n < MaxCalls

\* the goroutine c entering op with arg
entered(c, op, arg) ==
    [IdleCall EXCEPT !.op = op, !.arg = Ref(arg), !.n = call[c].n + 1]

\* a call that returns at once with an error
failedCall(c, op, arg, err) ==
    [entered(c, op, arg) EXCEPT !.pc = "returned", !.err = err]

\* CreateUser, lines 195-217: the INSERT
CreateUserInsert(c) ==
    /\ Ready(c, "CreateUser")
    /\ \E create \in CreateInputs, ok \in BOOLEAN :
         /\ ok => nextUserID <= MaxUsers
         /\ IF ok
            THEN LET user == insertedUser(create)
                 IN  /\ userTable' = userTable \cup {user}
                     /\ nextUserID' = nextUserID + 1
                     /\ call' = [call EXCEPT ![c] =
                          [entered(c, "CreateUser", create) EXCEPT !.pc = "store", !.user = Ref(user)]]
            ELSE /\ call' = [call EXCEPT ![c] =
                               failedCall(c, "CreateUser", create, ErrDB)]
                 /\ UNCHANGED <<userTable, nextUserID>>
    /\ UNCHANGED <<userCache, userCallers, outsideUsers>>

\* CreateUser, lines 219-221: cache the user and return it
CreateUserCache(c) ==
    /\ call[c].pc = "store"
    /\ call[c].op = "CreateUser"
    /\ LET user == Deref(call[c].user)
       IN  /\ userCache' = cacheStore(userCache, user.ID, user)
           /\ call' = [call EXCEPT ![c] =
                         [@ EXCEPT !.pc = "returned", !.user = NoUser,
                                   !.ret = Ref(user)]]
    /\ UNCHANGED <<userTable, nextUserID, userCallers, outsideUsers>>

\* UpdateUser, lines 225-265: the field check and the UPDATE
UpdateUserQuery(c) ==
    /\ Ready(c, "UpdateUser")
    /\ \E update \in UpdateInputs, ok \in BOOLEAN :
         LET rows == {row \in userTable : row.ID = update.ID}
         IN  IF setList(update) = {}
             THEN /\ call' = [call EXCEPT ![c] =
                                failedCall(c, "UpdateUser", update, ErrNoFields)]
                  /\ UNCHANGED userTable
             ELSE IF ~ok
             THEN /\ call' = [call EXCEPT ![c] =
                                failedCall(c, "UpdateUser", update, ErrDB)]
                  /\ UNCHANGED userTable
             ELSE IF rows = {}
             THEN /\ call' = [call EXCEPT ![c] =
                                failedCall(c, "UpdateUser", update, ErrNoRows)]
                  /\ UNCHANGED userTable
             ELSE LET user == updatedUser(Deref(rows), update)
                  IN  /\ userTable' = (userTable \ rows) \cup {user}
                      /\ call' = [call EXCEPT ![c] =
                           [entered(c, "UpdateUser", update) EXCEPT !.pc = "store", !.user = Ref(user)]]
    /\ UNCHANGED <<nextUserID, userCache, userCallers, outsideUsers>>

\* UpdateUser, lines 267-268: cache the row and return it
UpdateUserCache(c) ==
    /\ call[c].pc = "store"
    /\ call[c].op = "UpdateUser"
    /\ LET user == Deref(call[c].user)
       IN  /\ userCache' = cacheStore(userCache, user.ID, user)
           /\ call' = [call EXCEPT ![c] =
                         [@ EXCEPT !.pc = "returned", !.user = NoUser,
                                   !.ret = Ref(user)]]
    /\ UNCHANGED <<userTable, nextUserID, userCallers, outsideUsers>>

\* what ListUsers returns to its caller q: the list for ListUsers itself,
\* and through GetUser (lines 351-355) its first element or nil
returnList(q) ==
    [q EXCEPT !.pc = "returned",
              !.idx = 0,
              !.list = IF q.op = "ListUsers" THEN q.list ELSE <<>>,
              !.ret = IF q.op = "GetUser" /\ q.list # <<>>
                      THEN Ref(q.list[1]) ELSE NoUser]

\* ListUsers, lines 272-330: the SELECT and the scan of its rows, for the
\* call q (of ListUsers, or of GetUser at line 346)
queried(q, find, ok) ==
    IF ~ok
    THEN [q EXCEPT !.pc = "returned", !.err = ErrDB]
    ELSE LET list == selectUsers(find)
         IN  IF list = <<>>
             THEN returnList([q EXCEPT !.list = list])
             ELSE [q EXCEPT !.pc = "store", !.list = list, !.idx = 1]

\* ListUsers called directly: the query
ListUsersQuery(c) ==
    /\ Ready(c, "ListUsers")
    /\ \E find \in FindInputs, ok \in BOOLEAN :
         call' = [call EXCEPT ![c] =
                    queried(entered(c, "ListUsers", find), find, ok)]
    /\ UNCHANGED <<userTable, nextUserID, userCache, userCallers, outsideUsers>>

\* ListUsers, lines 332-336: one round of the loop that caches the rows
\* read; after the last round the list is returned
ListUsersCache(c) ==
    /\ call[c].pc = "store"
    /\ call[c].op \in {"ListUsers", "GetUser"}
    /\ LET user == call[c].list[call[c].idx]
       IN  /\ userCache' = cacheStore(userCache, user.ID, user)
           /\ call' = [call EXCEPT ![c] =
                         IF call[c].idx = Len(call[c].list)
                         THEN returnList(@)
                         ELSE [@ EXCEPT !.idx = @ + 1]]
    /\ UNCHANGED <<userTable, nextUserID, userCallers, outsideUsers>>

\* GetUser, lines 340-344: the cache is asked first when find.ID is set
GetUserLoad(c) ==
    /\ Ready(c, "GetUser")
    /\ \E find \in FindInputs :
         LET cached == IF find.ID # Nil
                       THEN cacheLoad(userCache, Deref(find.ID))
                       ELSE Nil
         IN  call' = [call EXCEPT ![c] =
                        IF cached # Nil
                        THEN [entered(c, "GetUser", find) EXCEPT !.pc = "returned", !.ret = cached]
                        ELSE [entered(c, "GetUser", find) EXCEPT !.pc = "query"]]
    /\ UNCHANGED <<userTable, nextUserID, userCache, userCallers, outsideUsers>>

\* GetUser, line 346: the call of ListUsers after a cache miss
GetUserQuery(c) ==
    /\ call[c].pc = "query"
    /\ call[c].op = "GetUser"
    /\ \E ok \in BOOLEAN :
         call' = [call EXCEPT ![c] = queried(@, Deref(call[c].arg), ok)]
    /\ UNCHANGED <<userTable, nextUserID, userCache, userCallers, outsideUsers>>

\* DeleteUser, lines 359-381: the transaction that deletes the row; a
\* failure at any statement or at Commit rolls it back
DeleteUserTx(c) ==
    /\ Ready(c, "DeleteUser")
    /\ \E delete \in DeleteInputs, ok \in BOOLEAN :
         IF ok
         THEN /\ userTable' = {row \in userTable : row.ID # delete.ID}
              /\ call' = [call EXCEPT ![c] =
                   [entered(c, "DeleteUser", delete) EXCEPT !.pc = "store"]]
         ELSE /\ call' = [call EXCEPT ![c] =
                            failedCall(c, "DeleteUser", delete, ErrDB)]
              /\ UNCHANGED userTable
    /\ UNCHANGED <<nextUserID, userCache, userCallers, outsideUsers>>

\* DeleteUser, lines 383-385: drop the cache entry and return
DeleteUserCache(c) ==
    /\ call[c].pc = "store"
    /\ call[c].op = "DeleteUser"
    /\ userCache' = cacheDelete(userCache, Deref(call[c].arg).ID)
    /\ call' = [call EXCEPT ![c] = [@ EXCEPT !.pc = "returned"]]
    /\ UNCHANGED <<userTable, nextUserID, userCallers, outsideUsers>>

\* the user store called by one goroutine, one call after the other
InitUsersSeq ==
    /\ shortcuts = {}
    /\ activities = <<>>
    /\ metricQueue = <<>>
    /\ req = [r \in Requests |-> IdleRequest]
    /\ renderIn = NoShortcut
    /\ renderOut = NoResponse
    /\ userTable = {}
    /\ nextUserID = 1
    /\ userCache = {}
    /\ userCallers = [c \in {1} |-> ReadOps \cup WriteOps]
    /\ call = [c \in DOMAIN userCallers |-> IdleCall]
    /\ DBIdle
    /\ RunIdle

\* the user store called by MaxCallers goroutines at once, the odd ones
\* reading the table while the even ones write it
InitUsers ==
    /\ shortcuts = {}
    /\ activities = <<>>
    /\ metricQueue = <<>>
    /\ req = [r \in Requests |-> IdleRequest]
    /\ renderIn = NoShortcut
    /\ renderOut = NoResponse
    /\ userTable = {}
    /\ nextUserID = 1
    /\ userCache = {}
    /\ userCallers = [c \in 1..MaxCallers |->
                         IF c % 2 = 1 THEN ReadOps ELSE WriteOps]
    /\ call = [c \in DOMAIN userCallers |-> IdleCall]
    /\ DBIdle
    /\ RunIdle

NextUsers ==
    \E c \in DOMAIN userCallers :
        \/ CreateUserInsert(c)
        \/ CreateUserCache(c)
        \/ UpdateUserQuery(c)
        \/ UpdateUserCache(c)
        \/ ListUsersQuery(c)
        \/ ListUsersCache(c)
        \/ GetUserLoad(c)
        \/ GetUserQuery(c)
        \/ DeleteUserTx(c)
        \/ DeleteUserCache(c)

SpecUsersSeq == InitUsersSeq /\ [][NextUsers]_vars

SpecUsers == InitUsers /\ [][NextUsers]_vars


----------------------------------------------------------------------------
(* DB.Open (src/store/db/db.go): opening the database, creating its schema  *)
(* or migrating it.  A version "1.2.3" is the tuple <<1, 2, 3>>, the name   *)
(* "1.2" of a minor version directory is <<1, 2>>; file names are character *)
(* sequences.                                                               *)

\* minorVersion + ".0"
normalizedVersion(minorVersion) == minorVersion \o <<0>>

\* semver.Compare after the "v" prefix: a missing patch number counts as 0,
\* then major, minor and patch compare as numbers
semverLess(a, b) ==
    LET va == IF Len(a) = 2 THEN a \o <<0>> ELSE a
        vb == IF Len(b) = 2 THEN b \o <<0>> ELSE b
    IN  \/ va[1] < vb[1]
        \/ va[1] = vb[1] /\ va[2] < vb[2]
        \/ va[1] = vb[1] /\ va[2] = vb[2] /\ va[3] < vb[3]

\* version.IsVersionGreaterThan(version, target)
IsVersionGreaterThan(version, target) == semverLess(target, version)

\* version.IsVersionGreaterOrEqualThan(version, target)
IsVersionGreaterOrEqualThan(version, target) == ~semverLess(version, target)

\* version.GetSchemaVersion(version): the minor version with patch 0
GetSchemaVersion(version) == <<version[1], version[2], 0>>

RECURSIVE SortVersion(_)
\* sort.Sort(version.SortVersion(list)): ascending by semver
SortVersion(versions) ==
    IF versions = {} THEN <<>>
    ELSE LET first == CHOOSE v \in versions :
                 \A o \in versions \ {v} : semverLess(v, o)
         IN  <<first>> \o SortVersion(versions \ {first})

\* the byte of a character of a file name
ByteOf(ch) ==
    CASE ch = "." -> 46 [] ch = "0" -> 48 [] ch = "1" -> 49 [] ch = "2" -> 50
      [] OTHER -> 95

RECURSIVE stringLess(_, _)
\* the order of Go strings: byte by byte, a prefix first
stringLess(a, b) ==
    IF a = <<>> THEN b # <<>>
    ELSE IF b = <<>> THEN FALSE
    ELSE IF ByteOf(Head(a)) # ByteOf(Head(b)) THEN ByteOf(Head(a)) < ByteOf(Head(b))
    ELSE stringLess(Tail(a), Tail(b))

RECURSIVE sortStrings(_)
\* sort.Strings(filenames)
sortStrings(names) ==
    IF names = {} THEN <<>>
    ELSE LET first == CHOOSE n \in names :
                 \A o \in names \ {n} : stringLess(n, o)
         IN  <<first>> \o sortStrings(names \ {first})

\* the embedded file system migrationFS: the directories migration/prod/<minor>
\* and the .sql files in each
MinorVersionDirs == {<<0, 1>>, <<0, 2>>, <<0, 10>>}
MigrationFiles(minorVersion) ==
    CASE minorVersion = <<0, 1>> -> {<<"0", "0">>}
      [] minorVersion = <<0, 2>> -> {<<"0", "0">>, <<"0", "1">>}
      [] minorVersion = <<0, 10>> -> {<<"2">>, <<"1", "0">>}
      [] OTHER -> {}

\* the embedded file system seedFS: the files seed/*.sql
SeedFiles == {<<"0">>, <<"1">>}

latestSchemaFileName == <<"L", "A", "T", "E", "S", "T">>

\* getMinorVersionList: the directories matching minorDirRegexp, sorted
getMinorVersionList == SortVersion(MinorVersionDirs)

\* fs.Glob(migrationFS, "migration/prod/<minor>/*.sql") followed by
\* sort.Strings
migrationFilenames(minorVersion) == sortStrings(MigrationFiles(minorVersion))

\* the entries of dbLog: a statement file handed to db.execute, and a call
\* of UpsertMigrationHistory, each with its outcome
Executed(kind, mode, minorVersion, file, ok) ==
    [op |-> "execute", kind |-> kind, mode |-> mode, minor |-> minorVersion,
     file |-> file, version |-> <<>>, ok |-> ok]
Upserted(version, ok) ==
    [op |-> "upsert", kind |-> "history", mode |-> "", minor |-> <<>>,
     file |-> <<>>, version |-> version, ok |-> ok]

\* db.UpsertMigrationHistory: the history after the version was recorded
UpsertMigrationHistory(history, version) == history \cup {version}

\* db.FindMigrationHistoryList: the versions recorded
FindMigrationHistoryList(history) == history

\* what DB.Open can start from
Modes == {"prod", "dev", "demo"}
DSNs == {"", "db"}
Stats == {"exists", "missing", "error"}
CurrentVersions == {<<0, 1, 0>>, <<0, 2, 1>>, <<0, 10, 3>>}
HistoryVersions == {<<0, 1, 0>>, <<0, 1, 4>>, <<0, 2, 0>>, <<0, 10, 0>>}
Histories == {h \in SUBSET HistoryVersions : Cardinality(h) <= MaxHistory}
DBStarts ==
    {s \in [mode : Modes, dsn : DSNs, stat : Stats,
            currentVersion : CurrentVersions, history : Histories] :
        s.stat # "exists" => s.history = {}}

\* DB.Open before its first statement
IdleOpen ==
    [pc |-> "start", latest |-> <<>>, list |-> <<>>, i |-> 0,
     filenames |-> <<>>, j |-> 0, backup |-> FALSE, err |-> "", attempt |-> 1]

\* DB.Open returning err ("" is nil)
returned(o, err) == [o EXCEPT !.pc = "done", !.err = err]

\* faulty variant: every later minor version is applied, also those beyond
\* the current version
shouldApply_NoUpperBound(minorVersion, latest, currentVersion) ==
    IsVersionGreaterThan(normalizedVersion(minorVersion), latest)

\* the condition of the loop at lines 127-128
shouldApply(minorVersion, latest, currentVersion) ==
    /\ IsVersionGreaterThan(normalizedVersion(minorVersion), latest)
    /\ IsVersionGreaterOrEqualThan(currentVersion, normalizedVersion(minorVersion))

\* LATEST__SCHEMA.sql is read from migration/prod in prod mode and from
\* migration/dev otherwise
schemaMode == IF dbStart.mode = "prod" THEN "prod" ELSE "dev"

\* Open, lines 41-112: the connection, the stat of the database file and
\* the read of the migration history decide what is done
OpenStart ==
    /\ open.pc = "start"
    /\ \E opened \in BOOLEAN, found \in BOOLEAN :
         open' =
           IF dbStart.dsn = "" THEN returned(open, "dsn required")
           ELSE IF ~opened THEN returned(open, "failed to open db with dsn")
           ELSE IF dbStart.mode = "prod"
           THEN IF dbStart.stat = "error"
                THEN returned(open, "failed to get db file stat")
                ELSE IF dbStart.stat = "missing"
                THEN [open EXCEPT !.pc = "schema"]
                ELSE IF ~found
                THEN returned(open, "failed to find migration history")
                ELSE IF FindMigrationHistoryList(migrationHistory) = {}
                THEN [open EXCEPT !.pc = "upsert"]
                ELSE LET sorted == SortVersion(FindMigrationHistoryList(migrationHistory))
                         latest == sorted[Len(sorted)]
                     IN  IF IsVersionGreaterThan(
                                GetSchemaVersion(dbStart.currentVersion), latest)
                         THEN [open EXCEPT !.pc = "backup", !.latest = latest,
                                           !.list = getMinorVersionList]
                         ELSE returned(open, "")
           ELSE IF dbStart.stat = "missing"
                THEN [open EXCEPT !.pc = "schema"]
                ELSE returned(open, "")
    /\ UNCHANGED <<dbStart, migrationHistory, dbLog, outsideDB>>

\* applyLatestSchema, lines 164-179, and what Open does after it
ApplyLatestSchema ==
    /\ open.pc = "schema"
    /\ \E ok \in BOOLEAN :
         /\ dbLog' = Append(dbLog,
                Executed("schema", schemaMode, <<>>, latestSchemaFileName, ok))
         /\ open' =
              IF ~ok THEN returned(open, "failed to apply latest schema")
              ELSE IF dbStart.mode = "prod" THEN [open EXCEPT !.pc = "upsert"]
              ELSE IF dbStart.mode = "demo"
                   THEN [open EXCEPT !.pc = "seed",
                                     !.filenames = sortStrings(SeedFiles), !.j = 1]
                   ELSE returned(open, "")
    /\ UNCHANGED <<dbStart, migrationHistory, outsideDB>>

\* Open, lines 80-86 and 95-101: the current version is recorded in a new
\* database and in one without history
UpsertCurrentVersion ==
    /\ open.pc = "upsert"
    /\ \E ok \in BOOLEAN :
         /\ dbLog' = Append(dbLog, Upserted(dbStart.currentVersion, ok))
         /\ migrationHistory' =
              IF ok THEN UpsertMigrationHistory(migrationHistory, dbStart.currentVersion)
              ELSE migrationHistory
         /\ open' = returned(open,
                IF ok THEN "" ELSE "failed to upsert migration history")
    /\ UNCHANGED <<dbStart, outsideDB>>

\* seed, lines 214-233: one round of the loop over the seed files
SeedFile ==
    /\ open.pc = "seed"
    /\ IF open.j > Len(open.filenames)
       THEN /\ open' = returned(open, "")
            /\ UNCHANGED dbLog
       ELSE \E ok \in BOOLEAN :
              /\ dbLog' = Append(dbLog,
                     Executed("seed", "", <<>>, open.filenames[open.j], ok))
              /\ open' = IF ok THEN [open EXCEPT !.j = @ + 1]
                         ELSE returned(open, "failed to seed")
    /\ UNCHANGED <<dbStart, migrationHistory, outsideDB>>

\* Open, lines 114-123: the database file is copied before the migration
Backup ==
    /\ open.pc = "backup"
    /\ \E outcome \in {"copied", "unread", "unwritten"} :
         open' =
           IF outcome = "unread"
           THEN returned(open, "failed to read raw database file")
           ELSE IF outcome = "unwritten"
           THEN returned(open, "failed to write raw database file")
           ELSE [open EXCEPT !.pc = "migrate", !.i = 1, !.backup = TRUE]
    /\ UNCHANGED <<dbStart, migrationHistory, dbLog, outsideDB>>

\* Open, lines 126-140: one round of the loop over the minor versions; after
\* the last one the backup is removed and Open returns nil
MigrateNext ==
    /\ open.pc = "migrate"
    /\ open' =
         IF open.i > Len(open.list)
         THEN returned([open EXCEPT !.backup = FALSE], "")
         ELSE IF shouldApply(open.list[open.i], open.latest, dbStart.currentVersion)
         THEN [open EXCEPT !.pc = "files",
                           !.filenames = migrationFilenames(open.list[open.i]),
                           !.j = 1]
         ELSE [open EXCEPT !.i = @ + 1]
    /\ UNCHANGED <<dbStart, migrationHistory, dbLog, outsideDB>>

\* applyMigrationForMinorVersion, lines 191-201: one file is executed
ExecuteFile ==
    /\ open.pc = "files"
    /\ open.j <= Len(open.filenames)
    /\ \E ok \in BOOLEAN :
         /\ dbLog' = Append(dbLog,
                Executed("migration", "prod", open.list[open.i],
                         open.filenames[open.j], ok))
         /\ open' = IF ok THEN [open EXCEPT !.j = @ + 1]
                    ELSE returned(open, "failed to apply minor version migration")
    /\ UNCHANGED <<dbStart, migrationHistory, outsideDB>>

\* applyMigrationForMinorVersion, lines 203-211: after the last file the
\* version is recorded
RecordMinorVersion ==
    /\ open.pc = "files"
    /\ open.j > Len(open.filenames)
    /\ \E ok \in BOOLEAN :
         LET version == normalizedVersion(open.list[open.i])
         IN  /\ dbLog' = Append(dbLog, Upserted(version, ok))
             /\ migrationHistory' =
                  IF ok THEN UpsertMigrationHistory(migrationHistory, version)
                  ELSE migrationHistory
             /\ open' = IF ok THEN [open EXCEPT !.pc = "migrate", !.i = @ + 1]
                        ELSE returned(open, "failed to apply minor version migration")
    /\ UNCHANGED <<dbStart, outsideDB>>

\* the redirector and the user store not in use
OthersIdle ==
    /\ shortcuts = {}
    /\ activities = <<>>
    /\ metricQueue = <<>>
    /\ req = [r \in Requests |-> IdleRequest]
    /\ renderIn = NoShortcut
    /\ renderOut = NoResponse
    /\ UsersIdle

InitDB ==
    /\ dbStart \in DBStarts
    /\ migrationHistory = dbStart.history
    /\ dbLog = <<>>
    /\ open = IdleOpen
    /\ OthersIdle
    /\ RunIdle

NextDB ==
    \/ OpenStart
    \/ ApplyLatestSchema
    \/ UpsertCurrentVersion
    \/ SeedFile
    \/ Backup
    \/ MigrateNext
    \/ ExecuteFile
    \/ RecordMinorVersion

SpecDB == InitDB /\ [][NextDB]_vars

\* the command is run again after Open returned: a new DB value opens the
\* same database, which holds whatever the earlier attempts left in it (the
\* database file exists once a statement was sent to it)
OpenAgain ==
    /\ open.pc = "done"
    /\ open.attempt < MaxAttempts
    /\ open' = [IdleOpen EXCEPT !.attempt = open.attempt + 1]
    /\ dbStart' = [dbStart EXCEPT
                      !.stat = IF @ = "missing" /\ dbLog # <<>> THEN "exists" ELSE @,
                      !.history = migrationHistory]
    /\ UNCHANGED <<migrationHistory, dbLog, outsideDB>>

NextDBRetry ==
    \/ NextDB
    \/ OpenAgain

SpecDBRetry == InitDB /\ [][NextDBRetry]_vars

----------------------------------------------------------------------------
(* rootCmd.Run (src/cmd/shortify/main.go, lines 41-81): the main goroutine  *)
(* opens the database, creates and starts the server and waits for the root *)
(* context; a second goroutine waits for SIGINT or SIGTERM, shuts the       *)
(* server down and cancels the context.  When the main goroutine returns    *)
(* the process ends and the second goroutine with it.                       *)

\* make(chan os.Signal, 1)
SigChanCap == 1
\* signal.Notify(c, os.Interrupt, syscall.SIGTERM)
NotifiedSignals == {"SIGINT", "SIGTERM"}

\* the errors s.Start returns
ErrServerClosed == "http: Server closed"
ErrListen == "listen: address already in use"

\* Run before its first statement
IdleRun == [pc |-> "open", failure |-> "", startErr |-> ""]
NoHandler == [pc |-> "none", sig |-> ""]
NoServer == [state |-> "none", started |-> FALSE, shutdown |-> FALSE]

\* the main goroutine has not returned, so the process is alive
Alive == run.pc # "returned"

\* server.NewServer: the server created
NewServer == [NoServer EXCEPT !.state = "created"]

\* Server.Start: the listener is open and requests are served
Serving(s) == [s EXCEPT !.state = "running", !.started = TRUE]

\* Server.Shutdown invoked: the listener is closed, Start returns
ShuttingDown(s) == [s EXCEPT !.state = "closing", !.shutdown = TRUE]

\* Server.Shutdown returned
ShutDown(s) == [s EXCEPT !.state = "closed"]

\* faulty variant: no error of Start cancels the context
cancelAfterStart_Never(err) == FALSE

\* lines 72-77: the context is cancelled for every error of Start except
\* ErrServerClosed
cancelAfterStart(err) == err # "" /\ err # ErrServerClosed

\* line 80: <-ctx.Done() returns once the context is cancelled
waitPasses(done) == done

\* lines 42-48: the database is opened; a failure cancels and returns
RunOpen ==
    /\ run.pc = "open"
    /\ \E ok \in BOOLEAN :
         IF ok
         THEN /\ run' = [run EXCEPT !.pc = "newServer"]
              /\ UNCHANGED ctxDone
         ELSE /\ run' = [run EXCEPT !.pc = "returned", !.failure = "open"]
              /\ ctxDone' = TRUE
    /\ UNCHANGED <<sigHandler, sigChan, sigSent, server, outsideRun>>

\* lines 50-56: the server is created; a failure cancels and returns
RunNewServer ==
    /\ run.pc = "newServer"
    /\ \E ok \in BOOLEAN :
         IF ok
         THEN /\ run' = [run EXCEPT !.pc = "notify"]
              /\ server' = NewServer
              /\ UNCHANGED ctxDone
         ELSE /\ run' = [run EXCEPT !.pc = "returned", !.failure = "server"]
              /\ ctxDone' = TRUE
              /\ UNCHANGED server
    /\ UNCHANGED <<sigHandler, sigChan, sigSent, outsideRun>>

\* lines 58-68: the channel is registered for the two signals and the
\* goroutine that waits on it is started
RunNotify ==
    /\ run.pc = "notify"
    /\ run' = [run EXCEPT !.pc = "start"]
    /\ sigHandler' = [NoHandler EXCEPT !.pc = "recv"]
    /\ UNCHANGED <<sigChan, sigSent, ctxDone, server, outsideRun>>

\* line 72: s.Start is called.  On a server already shut down it returns
\* ErrServerClosed; otherwise it either fails to listen, and lines 73-76
\* cancel the context, or it serves and blocks
RunStart ==
    /\ run.pc = "start"
    /\ IF server.state \in {"closing", "closed"}
       THEN /\ run' = [run EXCEPT !.pc = "wait", !.startErr = ErrServerClosed]
            /\ UNCHANGED <<server, ctxDone>>
       ELSE \E ok \in BOOLEAN :
              IF ok
              THEN /\ run' = [run EXCEPT !.pc = "serving"]
                   /\ server' = Serving(server)
                   /\ UNCHANGED ctxDone
              ELSE /\ run' = [run EXCEPT !.pc = "wait", !.failure = "start",
                                         !.startErr = ErrListen]
                   /\ server' = [server EXCEPT !.state = "failed"]
                   /\ ctxDone' = (ctxDone \/ cancelAfterStart(ErrListen))
    /\ UNCHANGED <<sigHandler, sigChan, sigSent, outsideRun>>

\* lines 72-73: s.Start returns ErrServerClosed once Shutdown was invoked
RunStartReturns ==
    /\ run.pc = "serving"
    /\ server.state \in {"closing", "closed"}
    /\ run' = [run EXCEPT !.pc = "wait", !.startErr = ErrServerClosed]
    /\ ctxDone' = (ctxDone \/ cancelAfterStart(ErrServerClosed))
    /\ UNCHANGED <<sigHandler, sigChan, sigSent, server, outsideRun>>

\* lines 80-81: the wait for the root context, then Run returns
RunWait ==
    /\ run.pc = "wait"
    /\ waitPasses(ctxDone)
    /\ run' = [run EXCEPT !.pc = "returned"]
    /\ UNCHANGED <<sigHandler, sigChan, sigSent, ctxDone, server, outsideRun>>

\* the process is sent SIGINT or SIGTERM after signal.Notify: the runtime
\* puts it into c without blocking and drops it when c is full
Signal ==
    /\ Alive
    /\ sigHandler.pc # "none"
    /\ sigSent < MaxSignals
    /\ \E sig \in NotifiedSignals :
         sigChan' = IF Len(sigChan) < SigChanCap THEN Append(sigChan, sig)
                    ELSE sigChan
    /\ sigSent' = sigSent + 1
    /\ UNCHANGED <<run, sigHandler, ctxDone, server, outsideRun>>

\* line 64: sig := <-c
HandlerReceive ==
    /\ Alive
    /\ sigHandler.pc = "recv"
    /\ sigChan # <<>>
    /\ sigHandler' = [pc |-> "shutdown", sig |-> Head(sigChan)]
    /\ sigChan' = Tail(sigChan)
    /\ UNCHANGED <<run, sigSent, ctxDone, server, outsideRun>>

\* lines 65-66: s.Shutdown(ctx) is invoked
HandlerShutdown ==
    /\ Alive
    /\ sigHandler.pc = "shutdown"
    /\ server' = ShuttingDown(server)
    /\ sigHandler' = [sigHandler EXCEPT !.pc = "closing"]
    /\ UNCHANGED <<run, sigChan, sigSent, ctxDone, outsideRun>>

\* line 66: s.Shutdown returns
HandlerShutdownReturns ==
    /\ Alive
    /\ sigHandler.pc = "closing"
    /\ server' = ShutDown(server)
    /\ sigHandler' = [sigHandler EXCEPT !.pc = "cancel"]
    /\ UNCHANGED <<run, sigChan, sigSent, ctxDone, outsideRun>>

\* line 67: cancel()
HandlerCancel ==
    /\ Alive
    /\ sigHandler.pc = "cancel"
    /\ ctxDone' = TRUE
    /\ sigHandler' = [sigHandler EXCEPT !.pc = "end"]
    /\ UNCHANGED <<run, sigChan, sigSent, server, outsideRun>>

InitRun ==
    /\ run = IdleRun
    /\ sigHandler = NoHandler
    /\ sigChan = <<>>
    /\ sigSent = 0
    /\ ctxDone = FALSE
    /\ server = NoServer
    /\ OthersIdle
    /\ DBIdle

NextRun ==
    \/ RunOpen
    \/ RunNewServer
    \/ RunNotify
    \/ RunStart
    \/ RunStartReturns
    \/ RunWait
    \/ Signal
    \/ HandlerReceive
    \/ HandlerShutdown
    \/ HandlerShutdownReturns
    \/ HandlerCancel

SpecRun == InitRun /\ [][NextRun]_vars

\* the scheduler runs every goroutine that can take a step, and Shutdown
\* returns; nothing obliges a signal to be sent
SpecRunFair ==
    /\ SpecRun
    /\ WF_vars(RunOpen)
    /\ WF_vars(RunNewServer)
    /\ WF_vars(RunNotify)
    /\ WF_vars(RunStart)
    /\ WF_vars(RunStartReturns)
    /\ WF_vars(RunWait)
    /\ WF_vars(HandlerReceive)
    /\ WF_vars(HandlerShutdown)
    /\ WF_vars(HandlerShutdownReturns)
    /\ WF_vars(HandlerCancel)

----------------------------------------------------------------------------
(* Properties of the user store                                             *)

\* no call of the user store is in flight
QuietUsers == \A c \in DOMAIN call : call[c].pc \in {"idle", "returned"}

\* every cache entry is the current row of its id; in particular there is
\* none for an id without a row
CacheCoherent ==
    \A en \in userCache : en.value \in userTable /\ en.value.ID = en.key

\* a step in which a call returns an error does not change the cache
FailedCallKeepsCache ==
    \A c \in DOMAIN call :
        (call'[c] # call[c] /\ call'[c].pc = "returned" /\ call'[c].err # "")
            => userCache' = userCache

\* C17: with one caller making its calls one after the other, whenever no
\* call is in flight every cache entry equals the current row with its id
\* and no entry exists for an id that was deleted, and a call that fails
\* (UpdateUser without fields, a failed statement, a failed delete
\* transaction) leaves the cache as it was.
C17_CacheInvalidatedOnWrite ==
    [](QuietUsers => CacheCoherent) /\ [][FailedCallKeepsCache]_vars

\* two users were created and cached, then DeleteUser removed the first: the
\* cache holds the second row and nothing for the first
C17_Witness ==
    /\ \E c \in DOMAIN call :
         /\ call[c].op = "DeleteUser"
         /\ call[c].pc = "returned"
         /\ call[c].err = ""
         /\ Deref(call[c].arg).ID = 1
    /\ nextUserID = 3
    /\ cacheLoad(userCache, 1) = Nil
    /\ cacheLoad(userCache, 2) # Nil

\* C18: with readers and writers running concurrently, once every call has
\* returned the cache holds no value older than the committed row and no
\* entry for a deleted user.
C18_NoStaleEntryAfterRace == QuietUsers => (\A en \in userCache : en.value \in userTable)

\* C19: a user returned by GetUser(find) satisfies every filter field set in
\* find, whether it comes from the cache or from the database.
C19_GetUserSatisfiesFind ==
    \A c \in DOMAIN call :
        (call[c].op = "GetUser" /\ call[c].pc = "returned" /\ call[c].ret # Nil)
            => whereClause(Deref(call[c].ret), Deref(call[c].arg))


----------------------------------------------------------------------------
(* Properties of DB.Open                                                    *)

IsPrefix(a, b) == Len(a) <= Len(b) /\ SubSeq(b, 1, Len(a)) = a

\* the latest version of the history Open started from
LatestRecorded ==
    CHOOSE v \in dbStart.history : \A o \in dbStart.history : ~semverLess(v, o)

\* prod mode, an existing database, a non-empty history whose latest version
\* is below the schema version of the current version
MigrationNeeded ==
    /\ dbStart.mode = "prod"
    /\ dbStart.dsn # ""
    /\ dbStart.stat = "exists"
    /\ dbStart.history # {}
    /\ semverLess(LatestRecorded, GetSchemaVersion(dbStart.currentVersion))

\* the minor versions v with v.0 above the latest recorded version and not
\* above the current version
DueVersions ==
    {v \in MinorVersionDirs :
        /\ semverLess(LatestRecorded, normalizedVersion(v))
        /\ ~semverLess(dbStart.currentVersion, normalizedVersion(v))}

\* the files of one minor version in sorted order, then its version recorded
MigrationSteps(v) ==
    LET files == sortStrings(MigrationFiles(v))
    IN  [k \in 1..Len(files) |-> Executed("migration", "prod", v, files[k], TRUE)]
            \o <<Upserted(normalizedVersion(v), TRUE)>>

RECURSIVE StepsOf(_)
StepsOf(versions) ==
    IF versions = <<>> THEN <<>>
    ELSE MigrationSteps(Head(versions)) \o StepsOf(Tail(versions))

\* everything a complete migration sends to the database
ExpectedLog == StepsOf(SortVersion(DueVersions))

\* the statements attempted so far, whatever their outcome
Attempted == [k \in 1..Len(dbLog) |-> [dbLog[k] EXCEPT !.ok = TRUE]]

\* C20: when a migration is needed, Open sends to the database, in this
\* order, the files of each due minor version in sorted file name order
\* followed by the record of v.0, the due versions in ascending order and no
\* others; the first statement that fails is the last one sent and Open
\* returns an error; Open returns nil only after all of them succeeded; the
\* history holds the versions it started with and those recorded.
C20_DueMigrationsInOrder ==
    MigrationNeeded =>
        /\ IsPrefix(Attempted, ExpectedLog)
        /\ \A k \in 1..Len(dbLog) :
             ~dbLog[k].ok => k = Len(dbLog) /\ open.pc = "done" /\ open.err # ""
        /\ (open.pc = "done" /\ open.err = "") => dbLog = ExpectedLog
        /\ migrationHistory =
             dbStart.history \cup
                 {dbLog[k].version :
                     k \in {n \in 1..Len(dbLog) : dbLog[n].op = "upsert" /\ dbLog[n].ok}}

\* Open returned nil after migrating 0.2 and 0.10 from a history that ends
\* below 0.2.0: the older directory 0.1 was left out
C20_Witness ==
    /\ MigrationNeeded
    /\ open.pc = "done"
    /\ open.err = ""
    /\ Cardinality(DueVersions) = 2
    /\ Len(dbLog) = 6


\* C21: over all attempts of Open on the same database, no migration file
\* is executed with success more than once.
C21_NoMigrationFileTwice ==
    \A j, k \in 1..Len(dbLog) :
        (/\ j < k
         /\ dbLog[j].kind = "migration"
         /\ dbLog[k].kind = "migration"
         /\ dbLog[j].ok
         /\ dbLog[k].ok)
            => ~(dbLog[j].minor = dbLog[k].minor /\ dbLog[j].file = dbLog[k].file)


----------------------------------------------------------------------------
(* Properties of rootCmd.Run                                                *)

\* the goroutine of line 63 has taken a signal from the channel
SignalTaken == sigHandler.pc \in {"shutdown", "closing", "cancel", "end"}

\* a signal has reached the process: it is in the channel or already taken
SignalReceived == sigChan # <<>> \/ SignalTaken

RunReturned == run.pc = "returned"

\* what holds in every state of a run of the command
RunSafety ==
    /\ (server.started /\ SignalReceived /\ ctxDone) => server.shutdown
    /\ run.failure \in {"open", "server"} => (RunReturned /\ sigSent = 0)
    /\ run.failure = "start" => ctxDone
    /\ RunReturned => ~(server.state = "running" /\ ~ctxDone)

====
